---- MODULE Spec2Model ----
(***************************************************************************)
(* Model of jeschu/go-logger, src/logger.go (the final version of the      *)
(* file, lines 833-1299): the Logger configuration, the goroutine-name     *)
(* registry, event construction, the filter and the two renderers.         *)
(*                                                                         *)
(* A Go string is a sequence of one-character strings.  A panic is an      *)
(* outcome of the operation that raises it: the operators return records   *)
(* with a flag `ok` (FALSE: the code panicked at that point) and the       *)
(* actions record the outcome of the most recent call in `last`.           *)
(***************************************************************************)
EXTENDS Integers, Sequences, FiniteSets, TLC

VARIABLES
    logger,          \* the Logger struct (one logger, shared by the goroutines)
    goRoutineNames,  \* the package-level map[int]string
    handles,         \* identifiers captured by the closures SetGoroutineName returned
    last,            \* outcome of the most recent call (what the caller and the sink saw)
    hist,            \* the calls made so far, oldest first (kept by the history specifications)
    goroutines,      \* per goroutine: the call it is in and where in its code it stands
    goRoutineNamesMutex,  \* the package-level sync.RWMutex
    written          \* the Write calls logger.out received, oldest first

vars == <<logger, goRoutineNames, handles, last, hist,
          goroutines, goRoutineNamesMutex, written>>

\* the state of the step-by-step (interleaving) specifications
conc == <<goroutines, goRoutineNamesMutex, written>>

----------------------------------------------------------------------------
(* Bounds of the model.                                                    *)

MaxMsgLen == 1        \* longest message of a logging call under Spec
MaxEventMsgLen == 3   \* longest message under SpecEvent
MaxOps == 3           \* registry calls recorded under SpecRegistry
MaxCfgOps == 4        \* Out / Colorized calls recorded under SpecColour

----------------------------------------------------------------------------
(* Characters and strings.                                                 *)

NL == "\n"
BS == "\\"
DQ == "\""
SP == " "

RECURSIVE Concat(_)
Concat(ss) == IF ss = <<>> THEN <<>> ELSE Head(ss) \o Concat(Tail(ss))

RECURSIVE Repeat(_, _)
\* strings.Repeat(c, n) for n >= 0
Repeat(c, n) == IF n <= 0 THEN <<>> ELSE <<c>> \o Repeat(c, n - 1)

RECURSIVE StrsUpTo(_, _)
\* every string over the alphabet of length <= n
StrsUpTo(alphabet, n) ==
    IF n = 0 THEN {<<>>}
    ELSE LET shorter == StrsUpTo(alphabet, n - 1)
         IN  shorter \cup {Append(s, c) : s \in shorter, c \in alphabet}

HasPrefix(s, p) == Len(s) >= Len(p) /\ SubSeq(s, 1, Len(p)) = p

RECURSIVE ReplaceAll(_, _, _)
\* strings.ReplaceAll(s, old, new) for a non-empty old
ReplaceAll(s, old, new) ==
    IF s = <<>> THEN <<>>
    ELSE IF HasPrefix(s, old)
         THEN new \o ReplaceAll(SubSeq(s, Len(old) + 1, Len(s)), old, new)
         ELSE <<Head(s)>> \o ReplaceAll(Tail(s), old, new)

Digits == <<"0", "1", "2", "3", "4", "5", "6", "7", "8", "9">>

RECURSIVE ItoaNat(_)
ItoaNat(n) == IF n < 10 THEN <<Digits[n + 1]>>
              ELSE Append(ItoaNat(n \div 10), Digits[(n % 10) + 1])

\* strconv.Itoa
Itoa(n) == IF n < 0 THEN <<"-">> \o ItoaNat(0 - n) ELSE ItoaNat(n)

DigitVal(c) == CHOOSE d \in 0..9 : Digits[d + 1] = c
IsDigit(c) == \E d \in 0..9 : Digits[d + 1] = c

RECURSIVE AtoiNat(_, _)
AtoiNat(s, acc) == IF s = <<>> THEN acc
                   ELSE AtoiNat(Tail(s), acc * 10 + DigitVal(Head(s)))

\* strconv.Atoi: [ok |-> FALSE] is the error return
Atoi(s) ==
    LET body == IF s # <<>> /\ Head(s) \in {"-", "+"} THEN Tail(s) ELSE s
    IN  IF body = <<>> \/ \E i \in 1..Len(body) : ~IsDigit(body[i])
        THEN [ok |-> FALSE, val |-> 0]
        ELSE [ok |-> TRUE,
              val |-> IF s # <<>> /\ Head(s) = "-" THEN 0 - AtoiNat(body, 0)
                      ELSE AtoiNat(body, 0)]

IsSpace(c) == c \in {SP, NL, "\t"}

RECURSIVE SkipSpace(_)
SkipSpace(s) == IF s # <<>> /\ IsSpace(Head(s)) THEN SkipSpace(Tail(s)) ELSE s

RECURSIVE TakeField(_)
TakeField(s) == IF s = <<>> \/ IsSpace(Head(s)) THEN <<>>
                ELSE <<Head(s)>> \o TakeField(Tail(s))

\* strings.Fields(s)[0]; [ok |-> FALSE] when there is no field (index out of range)
FirstField(s) ==
    LET t == SkipSpace(s)
    IN  [ok |-> t # <<>>, s |-> TakeField(t)]

\* strings.TrimPrefix
TrimPrefix(s, p) == IF HasPrefix(s, p) THEN SubSeq(s, Len(p) + 1, Len(s)) ELSE s

----------------------------------------------------------------------------
(* Severity model.                                                         *)

TRACE == 0
DEBUG == 1
INFO == 2
WARN == 3
ERROR == 4
FATAL == 5

Severities == {TRACE, DEBUG, INFO, WARN, ERROR, FATAL}

\* Level.Short()
Short(level) ==
    CASE level = TRACE -> <<"T">>
      [] level = DEBUG -> <<"D">>
      [] level = INFO  -> <<"I">>
      [] level = WARN  -> <<"W">>
      [] level = ERROR -> <<"E">>
      [] level = FATAL -> <<"F">>
      [] OTHER         -> <<"?">>

PLAIN == 0
JSON == 1

----------------------------------------------------------------------------
(* Colour palettes.  A colors.Color is a string; the model keeps each      *)
(* escape sequence as one token.                                           *)

clsOn == [Default |-> "<GREY>", Timestamp |-> "<BEIGE>", Trace |-> "<BLUE>",
          Debug |-> "<BLUE2>", Info |-> "<YELLOW>", Warn |-> "<YELLOW2>",
          Error |-> "<RED>", Fatal |-> "<RED2>", Logger |-> "<VIOLET>",
          GoRoutine |-> "<VIOLET2>", Message |-> "<WHITE>", MessageLevel |-> TRUE]

clsOff == [Default |-> "", Timestamp |-> "", Trace |-> "", Debug |-> "",
           Info |-> "", Warn |-> "", Error |-> "", Fatal |-> "", Logger |-> "",
           GoRoutine |-> "", Message |-> "", MessageLevel |-> FALSE]

\* colors.END
ColorEND == "<END>"

\* Color.String(): the escape sequence, no character for the empty colour
ColorString(c) == IF c = "" THEN <<>> ELSE <<c>>

----------------------------------------------------------------------------
(* The fmt package, as far as the logger uses it: Sprintf / Fprintf with   *)
(* an empty argument list.  "%%" prints a percent sign; any other verb     *)
(* finds no operand and prints %!c(MISSING); a '%' that ends the format    *)
(* prints %!(NOVERB).  Flags, width and precision before the verb are      *)
(* consumed.                                                               *)

IsFmtFlag(c) == c \in {"#", "0", "+", "-", SP, "."} \/ IsDigit(c)

RECURSIVE SkipFlags(_)
SkipFlags(s) == IF s # <<>> /\ IsFmtFlag(Head(s)) THEN SkipFlags(Tail(s)) ELSE s

\* the index of the first '%' of s, 0 when there is none
FirstPercent(s) ==
    IF \E i \in 1..Len(s) : s[i] = "%"
    THEN CHOOSE i \in 1..Len(s) : s[i] = "%" /\ \A j \in 1..(i - 1) : s[j] # "%"
    ELSE 0

RECURSIVE Sprintf(_)
Sprintf(format) ==
    LET p == FirstPercent(format)
    IN  IF p = 0 THEN format
        ELSE LET rest == SkipFlags(SubSeq(format, p + 1, Len(format)))
             IN  SubSeq(format, 1, p - 1) \o
                 (IF rest = <<>> THEN <<"%", "!", "(", "N", "O", "V", "E", "R", "B", ")">>
                  ELSE IF Head(rest) = "%" THEN <<"%">> \o Sprintf(Tail(rest))
                  ELSE <<"%", "!", Head(rest), "(", "M", "I", "S", "S", "I", "N", "G", ")">>
                       \o Sprintf(Tail(rest)))

\* fmt.Fprintf(out, format): the bytes handed to out.Write in one call
Fprintf(format) == Sprintf(format)

----------------------------------------------------------------------------
(* encoding/json: Marshal of a string (HTML escaping on, as by default).   *)

JsonEscapeChar(c) ==
    CASE c = DQ   -> <<BS, DQ>>
      [] c = BS   -> <<BS, BS>>
      [] c = NL   -> <<BS, "n">>
      [] c = "\t" -> <<BS, "t">>
      [] c = "<"  -> <<BS, "u", "0", "0", "3", "c">>
      [] c = ">"  -> <<BS, "u", "0", "0", "3", "e">>
      [] c = "&"  -> <<BS, "u", "0", "0", "2", "6">>
      [] OTHER    -> <<c>>

RECURSIVE JsonEscape(_)
JsonEscape(s) == IF s = <<>> THEN <<>> ELSE JsonEscapeChar(Head(s)) \o JsonEscape(Tail(s))

\* json.Marshal(s): the quoted, escaped text
JsonMarshal(s) == <<DQ>> \o JsonEscape(s) \o <<DQ>>

----------------------------------------------------------------------------
(* Errors.  An error value is named by a string; Nil is the nil error.     *)

Nil == "nil"
Errors == {"EOF"}

\* err.Error()
ErrorText(err) == CASE err = "EOF" -> <<"E", "O", "F">>
                    [] OTHER       -> <<>>

\* the panics of the Go runtime the code can raise
IndexOutOfRange == "runtime error: index out of range [-1]"
SliceOutOfRange == "runtime error: slice bounds out of range"
NoPanic == "none"

----------------------------------------------------------------------------
(* The goroutine-name registry.                                            *)

GoIds == {1, 17}          \* identifiers the runtime gave the goroutines
Labels == {<<"m", "a", "i", "n">>, <<"w">>}

\* the first line runtime.Stack writes for goroutine g
StackHeader(g) == <<"g", "o", "r", "o", "u", "t", "i", "n", "e", SP>> \o Itoa(g)
                  \o <<SP, "[", "r", "u", "n", "n", "i", "n", "g", "]", ":", NL>>

\* goroutineId(), called by goroutine g
goroutineId(g) ==
    LET f  == FirstField(TrimPrefix(StackHeader(g),
                                     <<"g", "o", "r", "o", "u", "t", "i", "n", "e", SP>>))
        id == Atoi(f.s)
    IN  IF f.ok /\ id.ok THEN id.val ELSE 0 - 1

\* a lookup that never consults the map
goroutineNameUnnamed(names, id) == Itoa(id)

\* goroutineName(id) against the map names
goroutineName(names, id) ==
    IF id \in DOMAIN names THEN names[id] ELSE Itoa(id)

\* the map after goRoutineNames[id] = name
MapSet(names, id, name) ==
    [k \in (DOMAIN names) \cup {id} |-> IF k = id THEN name ELSE names[k]]

\* a delete that removes nothing
MapDeleteNothing(names, id) == names

\* the map after delete(goRoutineNames, id)
MapDelete(names, id) == [k \in (DOMAIN names) \ {id} |-> names[k]]

EmptyMap == [k \in {} |-> <<>>]

----------------------------------------------------------------------------
(* Event construction.                                                     *)

Now == "<now>"
NoEvent == [Timestamp |-> "", GoroutineId |-> <<>>, Level |-> TRACE,
            Message |-> <<>>, Err |-> Nil]

\* createEvent without its trailing-newline step
KeepTrailingNewline(msg) == msg

\* the message after the trailing-newline step of createEvent (msg non-empty)
StripTrailingNewline(msg) ==
    IF msg[Len(msg)] = NL THEN SubSeq(msg, 1, Len(msg) - 1) ELSE msg

\* createEvent(level, msg, err) called by goroutine g: msg[len(msg)-1] panics
\* for the empty message
createEvent(names, g, level, msg, err) ==
    IF Len(msg) = 0
    THEN [ok |-> FALSE, payload |-> IndexOutOfRange, event |-> NoEvent]
    ELSE [ok |-> TRUE, payload |-> NoPanic,
          event |-> [Timestamp   |-> Now,
                     GoroutineId |-> goroutineName(names, goroutineId(g)),
                     Level       |-> level,
                     Message     |-> ReplaceAll(StripTrailingNewline(msg),
                                                <<NL>>, <<BS, "n">>),
                     Err         |-> err]]

\* time.Time.Format(time.RFC3339): one token stands for the timestamp text
FormatRFC3339(t) == <<"<ts>">>

----------------------------------------------------------------------------
(* The Logger.                                                             *)

\* what a sink is: a terminal, another operating-system file, or a writer
\* that is no *os.File (a bytes.Buffer, say)
Sinks == {"tty", "file", "buffer"}
IsOsFile(out) == out \in {"tty", "file"}
\* term.IsTerminal(int(f.Fd()))
IsTerminal(out) == out = "tty"

DefaultWidth == 10

\* NewLogger(name); os.Stderr is an *os.File, a terminal or not
NewLogger(name, stderr) ==
    [out |-> stderr, name |-> name, level |-> WARN, format |-> PLAIN,
     colorizedSet |-> FALSE, colors |-> clsOn, panicOnFatal |-> FALSE,
     maxNameLength |-> DefaultWidth, maxGoroutineNameLength |-> DefaultWidth]

\* an Out that derives the palette from every sink, OS file or not
OutColorsAnySink(lg, out) ==
    IF ~lg.colorizedSet
    THEN IF IsTerminal(out) THEN clsOn ELSE clsOff
    ELSE lg.colors

\* the palette after Out(out)
OutColors(lg, out) ==
    IF ~lg.colorizedSet /\ IsOsFile(out)
    THEN IF IsTerminal(out) THEN clsOn ELSE clsOff
    ELSE lg.colors

\* the palette Colorized(colorized) selects
ColorizedColors(colorized) == IF colorized THEN clsOn ELSE clsOff

\* the filter of log: event.Level >= logger.level
PassesFilter(level, threshold) == level >= threshold

\* IsTrace .. IsFatal with a strict comparison
IsLevelStrict(lg, s) == lg.level < s

\* IsTrace .. IsFatal: logger.level <= s
IsLevel(lg, s) == lg.level <= s

\* the error-bearing methods without their guard (as in the first version of the file)
ErrGivenUnchecked(err) == TRUE

\* the guard of the error-bearing methods: err != nil
ErrGiven(err) == err # Nil

\* stringToLength(str, length): s[:length-3] panics for length < 3
stringToLength(str, length) ==
    IF Len(str) > length
    THEN IF length - 3 < 0
         THEN [ok |-> FALSE, s |-> <<>>]
         ELSE [ok |-> TRUE, s |-> SubSeq(str, 1, length - 3) \o <<".", ".", ".">>]
    ELSE IF Len(str) < length
         THEN [ok |-> TRUE, s |-> str \o Repeat(SP, length - Len(str))]
         ELSE [ok |-> TRUE, s |-> str]

\* the field logPlain writes for text under the configured width
Field(text, width) ==
    IF width > 0 THEN stringToLength(text, width) ELSE [ok |-> TRUE, s |-> text]

levelColored(lg, level) ==
    CASE level = TRACE -> ColorString(lg.colors.Trace)
      [] level = DEBUG -> ColorString(lg.colors.Debug)
      [] level = INFO  -> ColorString(lg.colors.Info)
      [] level = WARN  -> ColorString(lg.colors.Warn)
      [] level = ERROR -> ColorString(lg.colors.Error)
      [] level = FATAL -> ColorString(lg.colors.Fatal)
      [] OTHER         -> ColorString(lg.colors.Default)

messageColored(lg, level) ==
    CASE level \in {TRACE, DEBUG, INFO} -> ColorString(lg.colors.Message)
      [] level = WARN  -> IF lg.colors.MessageLevel THEN ColorString(lg.colors.Warn)
                          ELSE ColorString(lg.colors.Message)
      [] level = ERROR -> IF lg.colors.MessageLevel THEN ColorString(lg.colors.Error)
                          ELSE ColorString(lg.colors.Message)
      [] level = FATAL -> IF lg.colors.MessageLevel THEN ColorString(lg.colors.Fatal)
                          ELSE ColorString(lg.colors.Message)
      [] OTHER         -> ColorString(lg.colors.Default)

\* the string logPlain builds, given its two fields
PlainLine(lg, event, name, goId) ==
    Concat(<< ColorString(lg.colors.Timestamp), FormatRFC3339(event.Timestamp),
              levelColored(lg, event.Level), <<SP, "-">>, Short(event.Level), <<"-">>,
              ColorString(lg.colors.Logger), <<SP, "[">>, name, <<"]", SP>>,
              ColorString(lg.colors.GoRoutine), <<"(">>, goId, <<")", SP>>,
              messageColored(lg, event.Level), event.Message,
              IF event.Err # Nil THEN <<":", SP>> \o ErrorText(event.Err) ELSE <<>>,
              ColorString(ColorEND), <<NL>> >>)

\* logPlain(event): the writes it makes, or the panic of stringToLength
logPlain(lg, event) ==
    LET name == Field(lg.name, lg.maxNameLength)
        goId == Field(event.GoroutineId, lg.maxGoroutineNameLength)
    IN  IF ~name.ok
        THEN [ok |-> FALSE, renderer |-> "logPlain", writes |-> <<>>,
              name |-> <<>>, goId |-> <<>>]
        ELSE IF ~goId.ok
        THEN [ok |-> FALSE, renderer |-> "logPlain", writes |-> <<>>,
              name |-> name.s, goId |-> <<>>]
        ELSE [ok |-> TRUE, renderer |-> "logPlain", name |-> name.s, goId |-> goId.s,
              writes |-> << Fprintf(PlainLine(lg, event, name.s, goId.s)) >>]

\* the string logJson builds
JsonLine(lg, event) ==
    Concat(<< <<"{", DQ, "t", "i", "m", "e", "s", "t", "a", "m", "o", DQ, ":", DQ>>,
              FormatRFC3339(event.Timestamp),
              <<DQ, ",", DQ, "l", "o", "g", "g", "e", "r", DQ, ":", DQ>>, lg.name,
              <<DQ, ",", DQ, "l", "e", "v", "e", "l", DQ, ":", DQ>>, Short(event.Level),
              <<DQ, ",", DQ, "g", "o", "r", "o", "u", "t", "i", "n", "e", "I", "d", DQ, ":", DQ>>,
              event.GoroutineId,
              <<DQ, ",", DQ, "m", "e", "s", "s", "a", "g", "e", DQ, ":", DQ>>,
              JsonMarshal(event.Message), <<DQ>>,
              IF event.Err # Nil
              THEN <<":", DQ, "e", "r", "r", "o", "r", DQ, ":", DQ>>
                   \o JsonMarshal(ErrorText(event.Err)) \o <<DQ>>
              ELSE <<>>,
              <<"}", NL>> >>)

\* logJson(event)
logJson(lg, event) ==
    [ok |-> TRUE, renderer |-> "logJson", name |-> <<>>, goId |-> <<>>,
     writes |-> << Fprintf(JsonLine(lg, event)) >>]

\* no renderer was called
NoRender == [ok |-> TRUE, renderer |-> "", name |-> <<>>, goId |-> <<>>, writes |-> <<>>]

\* the rendering branch of log
Render(lg, event) ==
    IF PassesFilter(event.Level, lg.level)
    THEN CASE lg.format = PLAIN -> logPlain(lg, event)
           [] lg.format = JSON  -> logJson(lg, event)
           [] OTHER             -> NoRender
    ELSE NoRender

\* the abort branch of log: event.Level == FATAL && logger.panicOnFatal
AbortsOnFatal(lg, event) == event.Level = FATAL /\ lg.panicOnFatal

\* log(event): the renderer it called and the effects in the order the code
\* makes them
log(lg, event) ==
    LET r == Render(lg, event)
    IN  IF ~r.ok
        THEN [renderer |-> r.renderer, trace |-> <<"panic">>, writes |-> <<>>,
              panicked |-> TRUE, payload |-> SliceOutOfRange,
              name |-> r.name, goId |-> r.goId]
        ELSE IF AbortsOnFatal(lg, event)
        THEN [renderer |-> r.renderer,
              trace |-> [i \in 1..Len(r.writes) |-> "write"] \o <<"panic">>,
              writes |-> r.writes, panicked |-> TRUE, payload |-> event.Err,
              name |-> r.name, goId |-> r.goId]
        ELSE [renderer |-> r.renderer,
              trace |-> [i \in 1..Len(r.writes) |-> "write"],
              writes |-> r.writes, panicked |-> FALSE, payload |-> NoPanic,
              name |-> r.name, goId |-> r.goId]

----------------------------------------------------------------------------
(* The logging methods.  kind names the four methods of a severity:        *)
(* "msg" (Warn), "msgf" (Warnf), "err" (WarnErr), "errf" (WarnErrf).       *)

Kinds == {"msg", "msgf", "err", "errf"}
ErrorBearing(kind) == kind \in {"err", "errf"}
Formatted(kind) == kind \in {"msgf", "errf"}

Idle == [op |-> "idle", kind |-> "", g |-> 0, level |-> TRACE, err |-> Nil, msg |-> <<>>,
         noop |-> FALSE, created |-> FALSE, event |-> NoEvent, renderer |-> "",
         trace |-> <<>>,
         writes |-> <<>>, panicked |-> FALSE, payload |-> NoPanic,
         name |-> <<>>, goId |-> <<>>, ret |-> FALSE, str |-> <<>>]

\* the outcome of goroutine g calling the method (kind, level) with err and text
Method(lg, names, g, kind, level, err, text) ==
    LET call == [Idle EXCEPT !.op = "log", !.kind = kind, !.g = g, !.level = level,
                             !.err = err, !.msg = text]
    IN  IF ErrorBearing(kind) /\ ~ErrGiven(err)
        THEN [call EXCEPT !.noop = TRUE]
        ELSE LET msg == IF Formatted(kind) THEN Sprintf(text) ELSE text
                 ce  == createEvent(names, g, level, msg,
                                    IF ErrorBearing(kind) THEN err ELSE Nil)
             IN  IF ~ce.ok
                 THEN [call EXCEPT !.trace = <<"panic">>, !.panicked = TRUE,
                                   !.payload = ce.payload]
                 ELSE LET r == log(lg, ce.event)
                      IN  [call EXCEPT !.created = TRUE, !.event = ce.event,
                                       !.renderer = r.renderer,
                                       !.trace = r.trace, !.writes = r.writes,
                                       !.panicked = r.panicked, !.payload = r.payload,
                                       !.name = r.name, !.goId = r.goId]

----------------------------------------------------------------------------
(* Actions.  A call is made while no other call's outcome is pending       *)
(* (last.op = "idle"); Return hands control back to the caller, or lets    *)
(* the program go on after the panic of a goroutine.  None of the actions  *)
(* below mentions hist: the specifications add what they record.           *)

Ready == last.op = "idle"

Out(out) ==
    /\ Ready
    /\ logger' = [logger EXCEPT !.out = out, !.colors = OutColors(logger, out)]
    /\ UNCHANGED <<goRoutineNames, handles, last>>

Format(format) ==
    /\ Ready
    /\ logger' = [logger EXCEPT !.format = format]
    /\ UNCHANGED <<goRoutineNames, handles, last>>

Level(level) ==
    /\ Ready
    /\ logger' = [logger EXCEPT !.level = level]
    /\ UNCHANGED <<goRoutineNames, handles, last>>

Colorized(colorized) ==
    /\ Ready
    /\ logger' = [logger EXCEPT !.colorizedSet = TRUE,
                                !.colors = ColorizedColors(colorized)]
    /\ UNCHANGED <<goRoutineNames, handles, last>>

PanicOnFatal(panicOnFatal) ==
    /\ Ready
    /\ logger' = [logger EXCEPT !.panicOnFatal = panicOnFatal]
    /\ UNCHANGED <<goRoutineNames, handles, last>>

MaxNameLength(length) ==
    /\ Ready
    /\ logger' = [logger EXCEPT !.maxNameLength = length]
    /\ UNCHANGED <<goRoutineNames, handles, last>>

MaxGoroutineNameLength(length) ==
    /\ Ready
    /\ logger' = [logger EXCEPT !.maxGoroutineNameLength = length]
    /\ UNCHANGED <<goRoutineNames, handles, last>>

\* Trace .. FatalErrf
LogCall(g, kind, level, err, text) ==
    /\ Ready
    /\ last' = Method(logger, goRoutineNames, g, kind, level, err, text)
    /\ UNCHANGED <<logger, goRoutineNames, handles>>

\* IsTrace .. IsFatal
IsCall(s) ==
    /\ Ready
    /\ last' = [Idle EXCEPT !.op = "is", !.level = s, !.ret = IsLevel(logger, s)]
    /\ UNCHANGED <<logger, goRoutineNames, handles>>

\* SetGoroutineName(name) called by goroutine g; the closure returned captures id
SetGoroutineName(g, name) ==
    /\ Ready
    /\ LET id == goroutineId(g)
       IN  /\ goRoutineNames' = MapSet(goRoutineNames, id, name)
           /\ handles' = handles \cup {id}
    /\ UNCHANGED <<logger, last>>

RemoveGoroutineName(id) ==
    /\ Ready
    /\ goRoutineNames' = MapDelete(goRoutineNames, id)
    /\ UNCHANGED <<logger, handles, last>>

\* a closure returned by SetGoroutineName is called: RemoveGoroutineName(id)
CallHandle(id) ==
    /\ id \in handles
    /\ RemoveGoroutineName(id)

\* goroutineName(id)
LookupName(id) ==
    /\ Ready
    /\ last' = [Idle EXCEPT !.op = "goroutineName", !.g = id,
                            !.str = goroutineName(goRoutineNames, id)]
    /\ UNCHANGED <<logger, goRoutineNames, handles>>

Return ==
    /\ ~Ready
    /\ last' = Idle
    /\ UNCHANGED <<logger, goRoutineNames, handles>>

----------------------------------------------------------------------------
(* The same calls, step by step.  Each goroutine of GoIds runs one call at *)
(* a time; goroutines[g].pc is where it stands in the code of that call.   *)
(* A step is one access to shared state (the mutex, the map, the sink)     *)
(* together with the goroutine-local code around it.  Entering a call is   *)
(* what a specification records in hist; the steps that follow leave hist  *)
(* alone.                                                                  *)
(*                                                                         *)
(* goRoutineNamesMutex is a sync.RWMutex: w is the goroutine that entered  *)
(* Lock (0: none) and keeps new readers out from then on, writing says     *)
(* that it has seen the last reader leave and owns the lock, readers are   *)
(* the goroutines between RLock and RUnlock.                               *)

NotCalling == [pc |-> "idle", op |-> "", id |-> 0, name |-> <<>>,
               level |-> TRACE, msg |-> <<>>, err |-> Nil,
               event |-> NoEvent, str |-> <<>>]

Unlocked == [w |-> 0, writing |-> FALSE, readers |-> {}]

InitConc ==
    /\ goroutines = [g \in GoIds |-> NotCalling]
    /\ goRoutineNamesMutex = Unlocked
    /\ written = <<>>

\* goroutine g moves to pc, its locals becoming loc
Goto(g, loc, pc) == goroutines' = [goroutines EXCEPT ![g] = [loc EXCEPT !.pc = pc]]
At(g, pc) == goroutines[g].pc = pc
Me(g) == goroutines[g]

\* SetGoroutineName(name) is entered by g: id := goroutineId()
EnterSetGoroutineName(g, name) ==
    /\ At(g, "idle")
    /\ Goto(g, [NotCalling EXCEPT !.op = "set", !.id = goroutineId(g), !.name = name],
            "Lock")
    /\ UNCHANGED <<logger, goRoutineNames, handles, last, goRoutineNamesMutex, written>>

\* RemoveGoroutineName(id) is entered by g
EnterRemoveGoroutineName(g, id) ==
    /\ At(g, "idle")
    /\ Goto(g, [NotCalling EXCEPT !.op = "remove", !.id = id], "Lock")
    /\ UNCHANGED <<logger, goRoutineNames, handles, last, goRoutineNamesMutex, written>>

\* g calls a closure SetGoroutineName returned: RemoveGoroutineName(id)
EnterHandle(g, id) ==
    /\ id \in handles
    /\ EnterRemoveGoroutineName(g, id)

\* goroutineName(id) is entered by g
EnterGoroutineName(g, id) ==
    /\ At(g, "idle")
    /\ Goto(g, [NotCalling EXCEPT !.op = "goroutineName", !.id = id], "RLock")
    /\ UNCHANGED <<logger, goRoutineNames, handles, last, goRoutineNamesMutex, written>>

\* a logging method is entered by g with a message and an error cause:
\* createEvent runs up to its call of goroutineName(goroutineId())
EnterLog(g, level, msg, err) ==
    /\ At(g, "idle")
    /\ Len(msg) > 0
    /\ Goto(g, [NotCalling EXCEPT !.op = "log", !.id = goroutineId(g),
                                  !.level = level, !.msg = msg, !.err = err],
            "RLock")
    /\ UNCHANGED <<logger, goRoutineNames, handles, last, goRoutineNamesMutex, written>>

\* goRoutineNamesMutex.Lock(), first half: g becomes the pending writer
Lock(g) ==
    /\ At(g, "Lock")
    /\ goRoutineNamesMutex.w = 0
    /\ goRoutineNamesMutex' = [goRoutineNamesMutex EXCEPT !.w = g]
    /\ Goto(g, Me(g), "LockWait")
    /\ UNCHANGED <<hist, logger, goRoutineNames, handles, last, written>>

\* goRoutineNamesMutex.Lock(), second half: the readers have left
LockWait(g) ==
    /\ At(g, "LockWait")
    /\ goRoutineNamesMutex.readers = {}
    /\ goRoutineNamesMutex' = [goRoutineNamesMutex EXCEPT !.writing = TRUE]
    /\ Goto(g, Me(g), "write")
    /\ UNCHANGED <<hist, logger, goRoutineNames, handles, last, written>>

\* goRoutineNames[id] = name, or delete(goRoutineNames, id)
WriteMap(g) ==
    /\ At(g, "write")
    /\ goRoutineNames' = IF Me(g).op = "set"
                         THEN MapSet(goRoutineNames, Me(g).id, Me(g).name)
                         ELSE MapDelete(goRoutineNames, Me(g).id)
    /\ Goto(g, Me(g), "Unlock")
    /\ UNCHANGED <<hist, logger, handles, last, goRoutineNamesMutex, written>>

\* what Unlock leaves of the mutex when it releases nothing
KeepLocked(m) == m

\* what goRoutineNamesMutex.Unlock() leaves of the mutex
ReleaseLock(m) == [m EXCEPT !.w = 0, !.writing = FALSE]

Unlock(g) ==
    /\ At(g, "Unlock")
    /\ goRoutineNamesMutex' = ReleaseLock(goRoutineNamesMutex)
    /\ Goto(g, Me(g), "return")
    /\ UNCHANGED <<hist, logger, goRoutineNames, handles, last, written>>

\* goRoutineNamesMutex.RLock(): blocks while a writer is pending or writing
RLock(g) ==
    /\ At(g, "RLock")
    /\ goRoutineNamesMutex.w = 0
    /\ goRoutineNamesMutex' =
          [goRoutineNamesMutex EXCEPT !.readers = @ \cup {g}]
    /\ Goto(g, Me(g), "read")
    /\ UNCHANGED <<hist, logger, goRoutineNames, handles, last, written>>

\* name, ok := goRoutineNames[id]; for a logging call the label goes into
\* the event createEvent builds
ReadMap(g) ==
    /\ At(g, "read")
    /\ Goto(g, IF Me(g).op = "log"
               THEN [Me(g) EXCEPT !.event =
                        createEvent(goRoutineNames, g, Me(g).level, Me(g).msg,
                                    Me(g).err).event]
               ELSE [Me(g) EXCEPT !.str = goroutineName(goRoutineNames, Me(g).id)],
            "RUnlock")
    /\ UNCHANGED <<hist, logger, goRoutineNames, handles, last, goRoutineNamesMutex, written>>

\* goRoutineNamesMutex.RUnlock(); a logging call goes on to log(event)
RUnlock(g) ==
    /\ At(g, "RUnlock")
    /\ goRoutineNamesMutex' =
          [goRoutineNamesMutex EXCEPT !.readers = @ \ {g}]
    /\ Goto(g, Me(g), IF Me(g).op = "log" THEN "log" ELSE "return")
    /\ UNCHANGED <<hist, logger, goRoutineNames, handles, last, written>>

\* log(event): the renderer builds its line and hands it to fmt.Fprintf,
\* which calls logger.out.Write once.  An entry of written is the bytes of
\* one Write, with the goroutine and the event it came from.
LogEvent(g) ==
    /\ At(g, "log")
    /\ LET r == log(logger, Me(g).event)
       IN  /\ written' = written \o
                 [i \in 1..Len(r.writes) |->
                     [bytes |-> r.writes[i], g |-> g, event |-> Me(g).event]]
           /\ Goto(g, Me(g), IF r.panicked THEN "panicked" ELSE "return")
    /\ UNCHANGED <<hist, logger, goRoutineNames, handles, last, goRoutineNamesMutex>>

\* the call returns; SetGoroutineName hands out the closure over id
ReturnCall(g) ==
    /\ At(g, "return")
    /\ handles' = IF Me(g).op = "set" THEN handles \cup {Me(g).id} ELSE handles
    /\ Goto(g, NotCalling, "idle")
    /\ UNCHANGED <<hist, logger, goRoutineNames, last, goRoutineNamesMutex, written>>

\* the steps of a registry call that is under way
RegistryStep(g) ==
    \/ Lock(g)
    \/ LockWait(g)
    \/ WriteMap(g)
    \/ Unlock(g)
    \/ RLock(g)
    \/ ReadMap(g)
    \/ RUnlock(g)
    \/ ReturnCall(g)

\* the steps of a call that is under way
Proceed(g) ==
    \/ RegistryStep(g)
    \/ LogEvent(g)

----------------------------------------------------------------------------
(* Spec: one logger named "svc" under every threshold, format, abort flag  *)
(* and field width of the input sets, and every logging method.            *)

LoggerName == <<"s", "v", "c">>
Thresholds == (TRACE - 1)..(FATAL + 1)
Formats == {PLAIN, JSON, JSON + 1}
NameWidths == {0 - 1, 0, 2, DefaultWidth}
GoroutineWidths == {0, 1, DefaultWidth}
Messages == StrsUpTo({"a", NL}, MaxMsgLen)
ErrValues == {Nil} \cup Errors

\* the error argument a method of the kind can be given
ErrArgs(kind) == IF ErrorBearing(kind) THEN ErrValues ELSE {Nil}

Init ==
    /\ logger = NewLogger(LoggerName, "tty")
    /\ goRoutineNames = EmptyMap
    /\ handles = {}
    /\ last = Idle
    /\ hist = <<>>
    /\ InitConc

Next ==
    \/ \E l \in Thresholds : Level(l) /\ UNCHANGED <<hist, conc>>
    \/ \E f \in Formats : Format(f) /\ UNCHANGED <<hist, conc>>
    \/ \E b \in BOOLEAN : PanicOnFatal(b) /\ UNCHANGED <<hist, conc>>
    \/ \E w \in NameWidths : MaxNameLength(w) /\ UNCHANGED <<hist, conc>>
    \/ \E w \in GoroutineWidths : MaxGoroutineNameLength(w) /\ UNCHANGED <<hist, conc>>
    \/ \E g \in GoIds, k \in Kinds, s \in Severities, m \in Messages :
          \E e \in ErrArgs(k) : LogCall(g, k, s, e, m) /\ UNCHANGED <<hist, conc>>
    \/ \E s \in Severities : IsCall(s) /\ UNCHANGED <<hist, conc>>
    \/ Return /\ UNCHANGED <<hist, conc>>

Spec == Init /\ [][Next]_vars

----------------------------------------------------------------------------
(* Claims checked under Spec.  After a logging call, last holds the call   *)
(* and its outcome, and logger the configuration the call ran under.       *)

Logged == last.op = "log" /\ ~last.noop
SupportedFormat == logger.format \in {PLAIN, JSON}

\* C1: under a threshold of TRACE..FATAL and format PLAIN or JSON, a logging
\* call writes a line to the sink if and only if the rank of its severity is
\* at least the threshold.
C1_WritesIffAtLeastThreshold ==
    (Logged /\ logger.level \in Severities /\ SupportedFormat)
        => (Len(last.writes) = 1 <=> last.level >= logger.level)

\* C2: an error-bearing method given the nil error builds no event, writes
\* nothing and does not panic, whatever the severity and the configuration;
\* given an error it builds the event of its severity carrying that error and
\* hands it to log, as the plain method does with its event.
C2_NilErrorIsNoOp ==
    (last.op = "log" /\ ErrorBearing(last.kind)) =>
        IF last.err = Nil
        THEN /\ ~last.created
             /\ last.writes = <<>>
             /\ last.trace = <<>>
             /\ ~last.panicked
        ELSE /\ ~last.noop
             /\ last.created =>
                  /\ last.event.Err = last.err
                  /\ last.event.Level = last.level
                  /\ LET r == log(logger, last.event)
                     IN  /\ last.writes = r.writes
                         /\ last.panicked = r.panicked
                         /\ last.payload = r.payload

\* FatalErr(nil, "") with abort-on-fatal enabled has returned
C2_Witness ==
    /\ last.op = "log" /\ last.kind = "err" /\ last.err = Nil
    /\ last.level = FATAL /\ logger.panicOnFatal /\ last.msg = <<>>
    /\ last.noop

\* C3: with abort-on-fatal enabled a FATAL call always panics, with the
\* event's error cause as the payload (nil when none was supplied); the line
\* is written before the panic when the event passes the threshold, and
\* nothing is written when the threshold is above FATAL.
C3_FatalAlwaysAborts ==
    (Logged /\ last.level = FATAL /\ logger.panicOnFatal) =>
        /\ last.panicked
        /\ last.payload = (IF ErrorBearing(last.kind) THEN last.err ELSE Nil)
        /\ (logger.level <= FATAL /\ SupportedFormat) => last.trace = <<"write", "panic">>
        /\ (logger.level > FATAL) => last.trace = <<"panic">>

\* C4: a logging call panics only if its severity is FATAL and abort-on-fatal
\* is enabled.
C4_NothingThrown ==
    (last.op = "log" /\ last.panicked) => (last.level = FATAL /\ logger.panicOnFatal)

\* C5: a logging call with the empty message builds an event whose message
\* is the empty string.
C5_EmptyMessageBuildsEvent ==
    (Logged /\ last.msg = <<>>) => (last.created /\ last.event.Message = <<>>)

\* what C7 says of a field: text under width w gives out
FieldAsClaimed(text, w, out) ==
    /\ (w > 0 /\ Len(text) > w) =>
          /\ Len(out) = w
          /\ Len(out) >= 3
          /\ SubSeq(out, Len(out) - 2, Len(out)) = <<".", ".", ".">>
    /\ (w > 0 /\ Len(text) < w) => out = text \o [i \in 1..(w - Len(text)) |-> SP]
    /\ (w <= 0 \/ Len(text) = w) => out = text

\* C7: in every line the plain renderer is asked for, the name field and
\* the goroutine field are the texts cut or padded to the configured width.
C7_FieldsHaveConfiguredWidth ==
    (Logged /\ last.created /\ logger.format = PLAIN
            /\ PassesFilter(last.level, logger.level)) =>
        /\ Len(last.writes) = 1
        /\ FieldAsClaimed(logger.name, logger.maxNameLength, last.name)
        /\ FieldAsClaimed(last.event.GoroutineId, logger.maxGoroutineNameLength, last.goId)

----------------------------------------------------------------------------
(* SpecEvent: event construction over every message of up to               *)
(* MaxEventMsgLen characters, through every logging method of the default  *)
(* logger.                                                                 *)

EventMessages == StrsUpTo({"a", NL, BS}, MaxEventMsgLen)

NextEvent ==
    \/ \E g \in GoIds, k \in Kinds, s \in Severities, m \in EventMessages :
          \E e \in ErrArgs(k) : LogCall(g, k, s, e, m) /\ UNCHANGED <<hist, conc>>
    \/ Return /\ UNCHANGED <<hist, conc>>

SpecEvent == Init /\ [][NextEvent]_vars

\* the message the method of the last call handed to createEvent
GivenMessage == IF Formatted(last.kind) THEN Sprintf(last.msg) ELSE last.msg

\* msg without one trailing newline, then each newline as backslash, n
WithoutOneTrailingNewline(msg) ==
    IF msg[Len(msg)] = NL THEN [i \in 1..(Len(msg) - 1) |-> msg[i]] ELSE msg
NewlinesEscaped(msg) ==
    Concat([i \in 1..Len(msg) |-> IF msg[i] = NL THEN <<BS, "n">> ELSE <<msg[i]>>])

\* C6: for every non-empty message the event's message is the message
\* without one trailing newline and with every remaining newline replaced by
\* backslash, n; it holds no raw newline, and a message without a newline is
\* stored unchanged.
C6_MessageNormalised ==
    (Logged /\ GivenMessage # <<>>) =>
        /\ last.created
        /\ last.event.Message = NewlinesEscaped(WithoutOneTrailingNewline(GivenMessage))
        /\ \A i \in 1..Len(last.event.Message) : last.event.Message[i] # NL
        /\ (\A i \in 1..Len(GivenMessage) : GivenMessage[i] # NL)
              => last.event.Message = GivenMessage

\* "\na\n" was logged: one newline stripped, the other escaped
C6_Witness ==
    /\ Logged /\ last.created
    /\ last.msg = <<NL, "a", NL>>
    /\ last.event.Message = <<BS, "n", "a">>

----------------------------------------------------------------------------
(* SpecColour: every sequence of up to MaxCfgOps Out and Colorized calls   *)
(* on a fresh logger, recorded in hist.                                    *)

Record(e, bound) == Len(hist) < bound /\ hist' = Append(hist, e) /\ UNCHANGED conc

InitColour ==
    /\ \E stderr \in {"tty", "file"} : logger = NewLogger(LoggerName, stderr)
    /\ goRoutineNames = EmptyMap
    /\ handles = {}
    /\ last = Idle
    /\ hist = <<>>
    /\ InitConc

NextColour ==
    \/ \E o \in Sinks :
          Out(o) /\ Record([op |-> "Out", out |-> o, on |-> FALSE], MaxCfgOps)
    \/ \E b \in BOOLEAN :
          Colorized(b) /\ Record([op |-> "Colorized", out |-> "", on |-> b], MaxCfgOps)

SpecColour == InitColour /\ [][NextColour]_vars

ColorizedCalls == {i \in 1..Len(hist) : hist[i].op = "Colorized"}
Latest(S) == CHOOSE i \in S : \A j \in S : j <= i

\* C8: while Colorized was never called the palette is the one the sink of
\* the most recent Out call calls for (on for a terminal, off otherwise);
\* once Colorized was called it is the one the most recent Colorized call
\* selected, whatever Out calls followed.
C8_PaletteFollowsSinkOrColorized ==
    IF ColorizedCalls # {}
    THEN logger.colors = (IF hist[Latest(ColorizedCalls)].on THEN clsOn ELSE clsOff)
    ELSE hist # <<>> =>
            logger.colors = (IF hist[Len(hist)].out = "tty" THEN clsOn ELSE clsOff)

----------------------------------------------------------------------------
(* SpecRegistry: every sequence of up to MaxOps SetGoroutineName,          *)
(* RemoveGoroutineName and handle calls, recorded in hist, with lookups    *)
(* in between.                                                             *)

\* the goroutines' identifiers and one that no goroutine of the model has
RegistryIds == GoIds \cup {5}

NextRegistry ==
    \/ \E g \in GoIds, n \in Labels :
          SetGoroutineName(g, n) /\ Record([op |-> "set", id |-> g, name |-> n], MaxOps)
    \/ \E id \in RegistryIds :
          RemoveGoroutineName(id)
             /\ Record([op |-> "remove", id |-> id, name |-> <<>>], MaxOps)
    \/ \E id \in RegistryIds :
          CallHandle(id) /\ Record([op |-> "handle", id |-> id, name |-> <<>>], MaxOps)
    \/ \E id \in RegistryIds : LookupName(id) /\ UNCHANGED <<hist, conc>>
    \/ Return /\ UNCHANGED <<hist, conc>>

SpecRegistry == Init /\ [][NextRegistry]_vars

\* the decimal strings of the identifiers in use
Decimal(id) == CASE id = 1 -> <<"1">>
                 [] id = 5 -> <<"5">>
                 [] id = 17 -> <<"1", "7">>

CallsAbout(id) == {i \in 1..Len(hist) : hist[i].id = id}

\* what C10 says goroutineName(id) returns after the calls of hist
NameAfterCalls(id) ==
    IF CallsAbout(id) = {} THEN Decimal(id)
    ELSE LET c == hist[Latest(CallsAbout(id))]
         IN  IF c.op = "set" THEN c.name ELSE Decimal(id)

\* C10: goroutineName(id) is the label of the most recent SetGoroutineName of
\* goroutine id when no removal of id followed it, and the decimal string of
\* id otherwise; calls about other identifiers do not change it.
C10_LookupFollowsLatestCall ==
    last.op = "goroutineName" => last.str = NameAfterCalls(last.g)

\* goroutine 17 was named twice, an absent identifier was removed, and the
\* lookup of 17 returned the second label
C10_Witness ==
    /\ last.op = "goroutineName" /\ last.g = 17
    /\ Len(hist) = 3
    /\ hist[1].op = "set" /\ hist[1].id = 17
    /\ hist[2].op = "set" /\ hist[2].id = 17 /\ hist[2].name # hist[1].name
    /\ hist[3].op = "remove" /\ hist[3].id = 5
    /\ last.str = hist[2].name

----------------------------------------------------------------------------
(* SpecNamed: the goroutines of GoIds each call SetGoroutineName with a    *)
(* label of their own and then one logging method at a severity the        *)
(* default threshold lets through, on one logger in either format; their   *)
(* steps interleave freely.  hist records the calls as they are entered.   *)

ConcMessages == {<<"a">>, <<"%">>}
ConcSeverities == {WARN, ERROR}

CallsOf(g) == {i \in 1..Len(hist) : hist[i].id = g}
NamesTaken == {hist[i].name : i \in {j \in 1..Len(hist) : hist[j].op = "set"}}

InitNamed ==
    /\ \E f \in {PLAIN, JSON} :
          logger = [NewLogger(LoggerName, "tty") EXCEPT !.format = f]
    /\ goRoutineNames = EmptyMap
    /\ handles = {}
    /\ last = Idle
    /\ hist = <<>>
    /\ InitConc

NextNamed ==
    \/ \E g \in GoIds, n \in Labels \ NamesTaken :
          /\ CallsOf(g) = {}
          /\ EnterSetGoroutineName(g, n)
          /\ hist' = Append(hist, [op |-> "set", id |-> g, name |-> n])
    \/ \E g \in GoIds, s \in ConcSeverities, m \in ConcMessages, e \in ErrValues :
          /\ Cardinality(CallsOf(g)) = 1
          /\ EnterLog(g, s, m, e)
          /\ hist' = Append(hist, [op |-> "log", id |-> g, name |-> <<>>])
    \/ \E g \in GoIds : Proceed(g)

SpecNamed == InitNamed /\ [][NextNamed]_vars

\* t occurs in s
Contains(s, t) ==
    \E i \in 1..(Len(s) - Len(t) + 1) : SubSeq(s, i, i + Len(t) - 1) = t

\* the label goroutine g gave itself
NameGiven(g) == hist[CHOOSE i \in CallsOf(g) : hist[i].op = "set"].name

\* the thread field of a line of the logger's format that shows label
LabelField(label) ==
    IF logger.format = PLAIN
    THEN <<"(">> \o label \o [i \in 1..(DefaultWidth - Len(label)) |-> SP] \o <<")", SP>>
    ELSE <<DQ, "g", "o", "r", "o", "u", "t", "i", "n", "e", "I", "d", DQ, ":", DQ>>
         \o label \o <<DQ, ",">>

\* both goroutines have named themselves, logged and returned
BothLogged ==
    \A g \in GoIds : Cardinality(CallsOf(g)) = 2 /\ At(g, "idle")

\* C11: under every interleaving of two goroutines that name themselves and
\* then log, each line written shows the label of the goroutine that made
\* the call, each goroutine's line is written once, and when both calls
\* have returned the registry holds exactly the two entries.
C11_LinesCarryOwnLabel ==
    /\ \A i \in 1..Len(written) :
          /\ Contains(written[i].bytes, LabelField(NameGiven(written[i].g)))
          /\ \A j \in 1..Len(written) : written[j].g = written[i].g => j = i
    /\ BothLogged =>
          /\ Len(written) = Cardinality(GoIds)
          /\ DOMAIN goRoutineNames = GoIds
          /\ \A g \in GoIds : goRoutineNames[g] = NameGiven(g)

\* both lines are out and the registry is complete; the goroutine that
\* entered its logging call second wrote first, so the calls overlapped
C11_Witness ==
    /\ BothLogged
    /\ Len(written) = 2
    /\ hist[Len(hist)].op = "log" /\ written[1].g = hist[Len(hist)].id
    /\ hist[Len(hist) - 1].op = "log"
    /\ DOMAIN goRoutineNames = GoIds

----------------------------------------------------------------------------
(* The structured format, under Spec.                                      *)

\* "key":"value" with both strings quoted and escaped as JSON strings
JsonField(key, value) == JsonMarshal(key) \o <<":">> \o JsonMarshal(value)

\* the flat record of an event: its fields separated by commas, the error
\* field present exactly when the event carries an error
ValidRecord(lg, event) ==
    Concat(<< <<"{">>,
              JsonField(<<"t", "i", "m", "e", "s", "t", "a", "m", "o">>,
                        FormatRFC3339(event.Timestamp)), <<",">>,
              JsonField(<<"l", "o", "g", "g", "e", "r">>, lg.name), <<",">>,
              JsonField(<<"l", "e", "v", "e", "l">>, Short(event.Level)), <<",">>,
              JsonField(<<"g", "o", "r", "o", "u", "t", "i", "n", "e", "I", "d">>,
                        event.GoroutineId), <<",">>,
              JsonField(<<"m", "e", "s", "s", "a", "g", "e">>, event.Message),
              IF event.Err # Nil
              THEN <<",">> \o JsonField(<<"e", "r", "r", "o", "r">>, ErrorText(event.Err))
              ELSE <<>>,
              <<"}", NL>> >>)

\* C12: what the structured renderer writes for an event is one valid flat
\* record: every value a single quoted and escaped string, the fields
\* separated by commas, the error field present exactly when the event
\* carries an error.
C12_JsonRecordIsValid ==
    (Logged /\ last.renderer = "logJson") =>
        last.writes = << ValidRecord(logger, last.event) >>

----------------------------------------------------------------------------
(* SpecPlain: the plain renderer of the default logger under every         *)
(* palette that Out and Colorized calls can leave, and every logging       *)
(* method.                                                                 *)

NextPlain ==
    \/ \E o \in Sinks : Out(o) /\ UNCHANGED <<hist, conc>>
    \/ \E b \in BOOLEAN : Colorized(b) /\ UNCHANGED <<hist, conc>>
    \/ \E g \in GoIds, k \in Kinds, s \in Severities, m \in Messages :
          \E e \in ErrArgs(k) : LogCall(g, k, s, e, m) /\ UNCHANGED <<hist, conc>>
    \/ Return /\ UNCHANGED <<hist, conc>>

SpecPlain == Init /\ [][NextPlain]_vars

\* the line without any escape sequence: timestamp, severity, the two
\* fields as rendered, message, error text if any, one newline
UncolouredLine(event, name, goId) ==
    Concat(<< FormatRFC3339(event.Timestamp), <<SP, "-">>, Short(event.Level),
              <<"-", SP, "[">>, name, <<"]", SP, "(">>, goId, <<")", SP>>,
              event.Message,
              IF event.Err # Nil THEN <<":", SP>> \o ErrorText(event.Err) ELSE <<>>,
              <<NL>> >>)

\* C13: with the palette off the plain renderer writes the line without any
\* escape sequence, the reset included.
C13_NoEscapeWhenPaletteOff ==
    (Logged /\ last.renderer = "logPlain" /\ logger.colors = clsOff
        /\ last.writes # <<>>) =>
        last.writes = << UncolouredLine(last.event, last.name, last.goId) >>

----------------------------------------------------------------------------
(* SpecLock: the goroutines of GoIds call SetGoroutineName,                *)
(* RemoveGoroutineName, the closures handed out and goroutineName, again   *)
(* and again, their steps interleaving freely.  SpecLockFair adds the      *)
(* scheduling: a goroutine whose next step is possible again and again     *)
(* takes it (a blocked Lock or RLock is served once the holders have left: *)
(* sync.Mutex hands the lock to a starving waiter, and Unlock lets the     *)
(* readers it blocked in before the next writer).                          *)

NextLock ==
    \/ \E g \in GoIds, n \in Labels :
          EnterSetGoroutineName(g, n) /\ UNCHANGED hist
    \/ \E g \in GoIds, id \in RegistryIds :
          EnterRemoveGoroutineName(g, id) /\ UNCHANGED hist
    \/ \E g \in GoIds, id \in RegistryIds : EnterHandle(g, id) /\ UNCHANGED hist
    \/ \E g \in GoIds, id \in RegistryIds : EnterGoroutineName(g, id) /\ UNCHANGED hist
    \/ \E g \in GoIds : RegistryStep(g)

SpecLock == Init /\ [][NextLock]_vars
SpecLockFair == SpecLock /\ \A g \in GoIds : SF_vars(RegistryStep(g))

\* g is between Lock and Unlock / between RLock and RUnlock
InWriteSection(g) == At(g, "write") \/ At(g, "Unlock")
InReadSection(g) == At(g, "read") \/ At(g, "RUnlock")

HoldsWriteLock(g) == goRoutineNamesMutex.w = g /\ goRoutineNamesMutex.writing
HoldsReadLock(g) == g \in goRoutineNamesMutex.readers

\* the map is accessed under the lock, a writer is alone in its section,
\* and a call that has come to its return holds nothing
LockDiscipline ==
    \A g \in GoIds :
        /\ At(g, "write") => HoldsWriteLock(g)
        /\ At(g, "read") => HoldsReadLock(g)
        /\ InWriteSection(g) =>
              \A h \in GoIds \ {g} : ~InWriteSection(h) /\ ~InReadSection(h)
        /\ (At(g, "return") \/ At(g, "idle")) =>
              goRoutineNamesMutex.w # g /\ ~HoldsReadLock(g)

\* C14: under every interleaving the name map is read and written only with
\* the mutex held, no writer shares its critical section with another reader
\* or writer, a lock taken is released before the call returns, and every
\* call that was entered returns.
C14_LockDisciplineAndProgress ==
    /\ []LockDiscipline
    /\ \A g \in GoIds : (~At(g, "idle")) ~> At(g, "idle")

\* both goroutines are in their read sections at once
C14_Witness ==
    /\ \A g \in GoIds : InReadSection(g) /\ HoldsReadLock(g)
    /\ goRoutineNamesMutex.w = 0

----------------------------------------------------------------------------
(* The writes the sink receives, under SpecNamed.                          *)

\* the line the renderer of the logger's format builds for an event
RenderedLine(lg, event) ==
    IF lg.format = PLAIN
    THEN PlainLine(lg, event, Field(lg.name, lg.maxNameLength).s,
                   Field(event.GoroutineId, lg.maxGoroutineNameLength).s)
    ELSE JsonLine(lg, event)

WritesOf(g) == {i \in 1..Len(written) : written[i].g = g}

\* C15: every rendered event reaches the sink as one Write whose bytes are
\* the rendered line, unchanged, whatever the message and the error text.
C15_OneWriteOfTheLineUnchanged ==
    /\ \A i \in 1..Len(written) :
          written[i].bytes = RenderedLine(logger, written[i].event)
    /\ \A g \in GoIds :
          (Me(g).op = "log" /\ At(g, "return")) => Cardinality(WritesOf(g)) = 1

----------------------------------------------------------------------------
(* The closures SetGoroutineName hands out, under SpecRegistry.            *)

\* the step is a call of a closure, recorded as the newest entry of hist
HandleCalled ==
    Len(hist') = Len(hist) + 1 /\ hist'[Len(hist')].op = "handle"

\* C16: calling a closure SetGoroutineName returned removes whatever entry
\* the identifier it captured has at that moment, however often the
\* goroutine renamed itself since, so that the identifier resolves to its
\* decimal string again; it leaves every other entry as it was, and changes
\* nothing when the identifier has no entry (a second call, or a call after
\* a removal).
C16_HandleRemovesByIdentifier ==
    [][HandleCalled =>
          LET id == hist'[Len(hist')].id
          IN  /\ id \notin DOMAIN goRoutineNames'
              /\ DOMAIN goRoutineNames' = (DOMAIN goRoutineNames) \ {id}
              /\ \A k \in DOMAIN goRoutineNames' :
                    goRoutineNames'[k] = goRoutineNames[k]
              /\ goroutineName(goRoutineNames', id) = Decimal(id)
              /\ id \notin DOMAIN goRoutineNames => goRoutineNames' = goRoutineNames
      ]_vars

\* goroutine 17 named itself, renamed itself, and the closure of the first
\* call was then called: the second label is gone
C16_Witness ==
    /\ Len(hist) = 3
    /\ hist[1].op = "set" /\ hist[1].id = 17
    /\ hist[2].op = "set" /\ hist[2].id = 17 /\ hist[2].name # hist[1].name
    /\ hist[3].op = "handle" /\ hist[3].id = 17
    /\ 17 \notin DOMAIN goRoutineNames
    /\ last.op = "goroutineName" /\ last.g = 17 /\ last.str = <<"1", "7">>

----------------------------------------------------------------------------
(* Auto colour mode, under SpecColour.                                     *)

\* the Out calls so far whose sink was an operating-system file
OsFileOuts ==
    {i \in 1..Len(hist) : hist[i].op = "Out" /\ hist[i].out \in {"tty", "file"}}

\* C17: while Colorized was never called, the palette is the one decided for
\* the most recent Out call whose sink was an operating-system file (on for
\* a terminal, off otherwise), and the 'on' palette of a fresh logger when
\* there was no such call; an Out call with another kind of sink leaves it
\* as it was.
C17_AutoPaletteFollowsLatestOsFile ==
    ColorizedCalls = {} =>
        logger.colors = (IF OsFileOuts = {} THEN clsOn
                         ELSE IF hist[Latest(OsFileOuts)].out = "tty" THEN clsOn
                         ELSE clsOff)

\* Out with a file that is no terminal, then Out with a sink that is no OS
\* file: the palette is still the one decided for the file
C17_Witness ==
    /\ Len(hist) = 2
    /\ hist[1].op = "Out" /\ hist[1].out = "file"
    /\ hist[2].op = "Out" /\ hist[2].out = "buffer"
    /\ logger.out = "buffer"
    /\ ~logger.colorizedSet
    /\ logger.colors = clsOff

====
